---- MODULE Spec2Model ----
(***************************************************************************)
(* WechatArticlesTool._invoke (tools/wechat_articles_tool.py): one         *)
(* invocation of the generator, stepped from suspension point to           *)
(* suspension point and from library call to library call.                 *)
(*                                                                         *)
(* Python values are tagged records [t, n, s]: t is the type, n the        *)
(* numeric payload (int, bool), s the string payload (str).  A key that is *)
(* not in the parameter dict carries the value Absent.                     *)
(***************************************************************************)
EXTENDS Integers, Sequences, FiniteSets, TLC

VARIABLES params, pc, out, calls, errors, ei, exc, article_data, comments, nums

vars == <<params, pc, out, calls, errors, ei, exc, article_data, comments, nums>>

\* ---------------------------------------------------------------- bounds
MaxArticles == 2

\* ---------------------------------------------------------------- values
Absent == [t |-> "absent", n |-> 0, s |-> ""]
NoneV == [t |-> "none", n |-> 0, s |-> ""]
TrueV == [t |-> "bool", n |-> 1, s |-> ""]
IntV(i) == [t |-> "int", n |-> i, s |-> ""]
StrV(x) == [t |-> "str", n |-> 0, s |-> x]

\* dict.get(key, default)
Get(p, key, default) == IF p[key].t = "absent" THEN default ELSE p[key]

\* Python truth value of a parameter (`not tool_parameters.get(name)`):
\* a missing key gives None; None, "", 0 and False are false.
Truthy(v) ==
    CASE v.t \in {"absent", "none"} -> FALSE
      [] v.t = "str" -> v.s # ""
      [] v.t \in {"int", "bool"} -> v.n # 0

\* isinstance(v, int): bool is a subclass of int
IsInstanceInt(v) == v.t \in {"int", "bool"}

\* decimal digits of the small integers of the model
IntStr(i) ==
    CASE i = 0 -> "0" [] i = 1 -> "1" [] i = 2 -> "2" [] i = 3 -> "3"
      [] i = 4 -> "4" [] i = 5 -> "5" [] i = 6 -> "6" [] i = 7 -> "7"
      [] i = 8 -> "8" [] i = 9 -> "9"

\* str(v) / f"{v}"
PyStr(v) ==
    CASE v.t = "str" -> v.s
      [] v.t = "int" -> IntStr(v.n)
      [] v.t = "bool" -> (IF v.n = 1 THEN "True" ELSE "False")
      [] v.t \in {"none", "absent"} -> "None"

\* the characters of the string literals used as article_url and prefix
Chars(x) ==
    CASE x = "" -> <<>>
      [] x = "http" -> <<"h", "t", "t", "p">>
      [] x = "htt" -> <<"h", "t", "t">>
      [] x = "http://a" -> <<"h", "t", "t", "p", ":", "/", "/", "a">>
      [] x = "ftp://a" -> <<"f", "t", "p", ":", "/", "/", "a">>

\* str.startswith
StartsWith(x, prefix) ==
    /\ Len(Chars(x)) >= Len(Chars(prefix))
    /\ SubSeq(Chars(x), 1, Len(Chars(prefix))) = Chars(prefix)

\* ------------------------------------------------------------- messages
create_text_message(fragments) == [type |-> "text", text |-> fragments]
create_json_message(payload) == [type |-> "json", json |-> payload]

\* ----------------------------------------------------------- exceptions
NoExc == [kind |-> "none", src |-> "none", msg |-> ""]
Raise(kind, src, msg) == [kind |-> kind, src |-> src, msg |-> msg]

\* what the scraping library may raise
LibExcKinds == {"RequestException", "ValueError", "RuntimeError"}

\* issubclass(kind, cls) for the exception classes that occur
IsSubclass(kind, cls) ==
    \/ kind = cls
    \/ cls = "Exception" /\ kind \in {"RequestException", "ValueError", "RuntimeError",
                                       "AttributeError", "TypeError", "KeyError"}

\* ------------------------------------------------------ parameter domain
ParamDomain(key) ==
    CASE key = "action" -> {Absent, StrV(""), IntV(0), IntV(7), StrV("bogus"),
                             StrV("get_article_urls"), StrV("get_article_details")}
      [] key = "cookie" -> {Absent, StrV(""), StrV("ck")}
      [] key = "token" -> {NoneV, StrV("tk")}
      [] key = "nickname" -> {IntV(0), StrV("nick")}
      [] key = "biz" -> {Absent, StrV("biz")}
      [] key = "count" -> {Absent, IntV(0), IntV(1), IntV(5), IntV(6), StrV("3"), TrueV}
      [] key = "begin" -> {Absent, IntV(3), StrV("x")}
      [] key = "appmsg_token" -> {Absent, StrV("at")}
      [] key = "wechat_cookie" -> {StrV(""), StrV("wc")}
      [] key = "article_url" -> {Absent, StrV(""), StrV("http://a"), StrV("htt"),
                                  StrV("ftp://a"), IntV(5)}

\* ------------------------------------------------- library return values
\* raw records of get_urls: any subset of the four fields, extra fields
RawRecords ==
    { [title |-> StrV("A"), link |-> StrV("http://a"), update_time |-> IntV(1), cover |-> StrV("c")],
      [link |-> StrV("ftp://a"), cover |-> StrV("c"), extra |-> IntV(9)],
      [title |-> StrV("B")] }

SeqsUpTo(S, k) == UNION { [1..m -> S] : m \in 0..k }

UrlReturns ==
    { [kind |-> "list", items |-> l] : l \in SeqsUpTo(RawRecords, MaxArticles) }
    \cup { [kind |-> "none", items |-> <<>>], [kind |-> "strs", items |-> <<>>] }

CommentsReturns ==
    { [kind |-> "list", items |-> <<>>],
      [kind |-> "list", items |-> <<StrV("hi")>>],
      [kind |-> "none", items |-> <<>>] }

NumsReturns ==
    { [kind |-> "tuple", items |-> <<IntV(8), IntV(2), IntV(1)>>],
      [kind |-> "tuple", items |-> <<IntV(0), IntV(0), IntV(0)>>],
      [kind |-> "tuple", items |-> <<IntV(1), IntV(2)>>],
      [kind |-> "tuple", items |-> <<IntV(1), IntV(2), IntV(3), IntV(4)>>],
      [kind |-> "none", items |-> <<>>] }

Unset == [kind |-> "unset", items |-> <<>>]

\* ------------------------------------------------------- pure functions
ValidActions == {"get_article_urls", "get_article_details"}

action == Get(params, "action", NoneV)
begin == Get(params, "begin", IntV(0))
count == Get(params, "count", IntV(5))

ItemGet(item, field, default) == IF field \in DOMAIN item THEN item[field] ELSE default

\* variant: cover read from the "link" key
_parse_article_urls_response_CoverFromLink(data) ==
    [articles |-> [i \in 1..Len(data) |->
                      [title |-> ItemGet(data[i], "title", StrV("")),
                       link |-> ItemGet(data[i], "link", StrV("")),
                       update_time |-> ItemGet(data[i], "update_time", IntV(0)),
                       cover |-> ItemGet(data[i], "link", StrV(""))]],
     total_count |-> Len(data)]

_parse_article_urls_response(data) ==
    [articles |-> [i \in 1..Len(data) |->
                      [title |-> ItemGet(data[i], "title", StrV("")),
                       link |-> ItemGet(data[i], "link", StrV("")),
                       update_time |-> ItemGet(data[i], "update_time", IntV(0)),
                       cover |-> ItemGet(data[i], "cover", StrV(""))]],
     total_count |-> Len(data)]

\* variant: like_num and old_like_num exchanged
_parse_article_details_response_Swapped(c, read_num, like_num, old_like_num) ==
    [comments |-> c, read_num |-> read_num, like_num |-> old_like_num,
     old_like_num |-> like_num]

_parse_article_details_response(c, read_num, like_num, old_like_num) ==
    [comments |-> c, read_num |-> read_num, like_num |-> like_num,
     old_like_num |-> old_like_num]

CommonRequired == <<"cookie", "token", "nickname", "biz">>
DetailsRequired == <<"appmsg_token", "wechat_cookie", "article_url">>

Description(name) ==
    CASE name = "cookie" -> "Cookie obtained from the WeChat official account platform"
      [] name = "token" -> "Token obtained from the WeChat official account platform"
      [] name = "nickname" -> "Nickname of the WeChat official account"
      [] name = "biz" -> "Biz identifier of the WeChat official account"
      [] name = "appmsg_token" -> "Appmsg_token obtained by capturing packets when opening WeChat official account articles"
      [] name = "wechat_cookie" -> "Cookie obtained by capturing packets when opening WeChat official account articles"
      [] name = "article_url" -> "URL of the WeChat official account article"

RECURSIVE MissingErrors(_, _, _)
MissingErrors(p, required, prefix) ==
    IF required = <<>> THEN <<>>
    ELSE (IF ~Truthy(Get(p, Head(required), NoneV))
          THEN << <<prefix, Head(required), ". ", Description(Head(required))>> >>
          ELSE <<>>) \o MissingErrors(p, Tail(required), prefix)

CountError == <<"Parameter 'count' must be an integer between 1 and 5">>
UrlError == <<"Parameter 'article_url' must be a valid URL">>

\* variant: lower bound of count off by one (count < 0)
_validate_common_parameters_CountLow(p) ==
    LET c == Get(p, "count", IntV(5))
    IN MissingErrors(p, CommonRequired, "Missing required parameter: ")
       \o (IF ~IsInstanceInt(c) \/ c.n < 0 \/ c.n > 5 THEN <<CountError>> ELSE <<>>)

_validate_common_parameters(p) ==
    LET c == Get(p, "count", IntV(5))
    IN MissingErrors(p, CommonRequired, "Missing required parameter: ")
       \o (IF ~IsInstanceInt(c) \/ c.n < 1 \/ c.n > 5 THEN <<CountError>> ELSE <<>>)

\* article_url.startswith raises AttributeError when the value is not a str
DetailsRaises(p) ==
    LET u == Get(p, "article_url", NoneV) IN Truthy(u) /\ u.t # "str"

_validate_details_parameters(p) ==
    LET u == Get(p, "article_url", NoneV)
    IN MissingErrors(p, DetailsRequired, "Missing required parameter for get_article_details: ")
       \o (IF Truthy(u) /\ ~StartsWith(u.s, "http") THEN <<UrlError>> ELSE <<>>)

\* variant: the catch-all clause placed first
ExceptClauses_GenericFirst ==
    << [cls |-> "Exception", prefix |-> "An error occurred while invoking the tool: "],
       [cls |-> "RequestException", prefix |-> "Network error occurred: "],
       [cls |-> "ValueError", prefix |-> "Invalid parameter value: "] >>

\* variant: no catch-all clause
ExceptClauses_NoCatchAll ==
    << [cls |-> "RequestException", prefix |-> "Network error occurred: "],
       [cls |-> "ValueError", prefix |-> "Invalid parameter value: "] >>

\* the except clauses of _invoke, in source order
ExceptClauses ==
    << [cls |-> "RequestException", prefix |-> "Network error occurred: "],
       [cls |-> "ValueError", prefix |-> "Invalid parameter value: "],
       [cls |-> "Exception", prefix |-> "An error occurred while invoking the tool: "] >>

\* indexes of the clauses that match the raised exception
Matching(e) == { i \in 1..Len(ExceptClauses) : IsSubclass(e.kind, ExceptClauses[i].cls) }

Caught(e) == Matching(e) # {}

\* the first matching clause formats the message with str(e)
ExceptText(e) ==
    LET i == CHOOSE j \in Matching(e) : \A k \in Matching(e) : j <= k
    IN <<ExceptClauses[i].prefix, e.msg>>

\* variant: begin and count passed without str()
GetUrlsArgs_Raw(p) ==
    <<p["nickname"], p["biz"], Get(p, "begin", IntV(0)), Get(p, "count", IntV(5))>>

GetUrlsArgs(p) ==
    <<p["nickname"], p["biz"], StrV(PyStr(Get(p, "begin", IntV(0)))),
      StrV(PyStr(Get(p, "count", IntV(5))))>>

\* ----------------------------------------------------------------- Init
Init ==
    /\ params \in [action : ParamDomain("action"), cookie : ParamDomain("cookie"),
                    token : ParamDomain("token"), nickname : ParamDomain("nickname"),
                    biz : ParamDomain("biz"), count : ParamDomain("count"),
                    begin : ParamDomain("begin"),
                    appmsg_token : ParamDomain("appmsg_token"),
                    wechat_cookie : ParamDomain("wechat_cookie"),
                    article_url : ParamDomain("article_url")]
    /\ pc = "start"
    /\ out = <<>>
    /\ calls = <<>>
    /\ errors = <<>>
    /\ ei = 1
    /\ exc = NoExc
    /\ article_data = Unset
    /\ comments = Unset
    /\ nums = Unset

\* -------------------------------------------------------------- actions
\* variant: no return after the "Invalid action" text
CheckAction_NoReturn ==
    /\ pc = "start"
    /\ IF ~Truthy(action)
       THEN /\ out' = Append(out, create_text_message(<<"Missing required parameter: action">>))
            /\ pc' = "done"
       ELSE IF ~(action.t = "str" /\ action.s \in ValidActions)
       THEN /\ out' = Append(out, create_text_message(
                        <<"Invalid action: ", PyStr(action), ". Supported actions are ",
                          "get_article_urls", " and ", "get_article_details">>))
            /\ pc' = "validate_common"
       ELSE /\ out' = out
            /\ pc' = "validate_common"
    /\ UNCHANGED <<params, calls, errors, ei, exc, article_data, comments, nums>>

\* lines 87-100: the two action checks, each yielding one text and returning
CheckAction ==
    /\ pc = "start"
    /\ IF ~Truthy(action)
       THEN /\ out' = Append(out, create_text_message(<<"Missing required parameter: action">>))
            /\ pc' = "done"
       ELSE IF ~(action.t = "str" /\ action.s \in ValidActions)
       THEN /\ out' = Append(out, create_text_message(
                        <<"Invalid action: ", PyStr(action), ". Supported actions are ",
                          "get_article_urls", " and ", "get_article_details">>))
            /\ pc' = "done"
       ELSE /\ out' = out
            /\ pc' = "validate_common"
    /\ UNCHANGED <<params, calls, errors, ei, exc, article_data, comments, nums>>

\* lines 103-104
ValidateCommon ==
    /\ pc = "validate_common"
    /\ errors' = _validate_common_parameters(params)
    /\ ei' = 1
    /\ pc' = IF errors' # <<>> THEN "yield_common" ELSE "try"
    /\ UNCHANGED <<params, out, calls, exc, article_data, comments, nums>>

\* variant: no return after the common errors
YieldCommonError_NoReturn ==
    /\ pc = "yield_common"
    /\ out' = Append(out, create_text_message(errors[ei]))
    /\ ei' = ei + 1
    /\ pc' = IF ei' > Len(errors) THEN "try" ELSE "yield_common"
    /\ UNCHANGED <<params, calls, errors, exc, article_data, comments, nums>>

\* lines 105-107: one yield per collected error, then return
YieldCommonError ==
    /\ pc = "yield_common"
    /\ out' = Append(out, create_text_message(errors[ei]))
    /\ ei' = ei + 1
    /\ pc' = IF ei' > Len(errors) THEN "done" ELSE "yield_common"
    /\ UNCHANGED <<params, calls, errors, exc, article_data, comments, nums>>

\* lines 109-115 and 121: the four subscripts, then the branch on action
Dispatch ==
    /\ pc = "try"
    /\ IF \E k \in {"cookie", "token", "nickname", "biz"} : params[k].t = "absent"
       THEN /\ exc' = Raise("KeyError", "internal", "key")
            /\ pc' = "except"
       ELSE /\ exc' = exc
            /\ pc' = IF action.s = "get_article_urls" THEN "paw"
                     ELSE IF action.s = "get_article_details" THEN "validate_details"
                     ELSE "done"
    /\ UNCHANGED <<params, out, calls, errors, ei, article_data, comments, nums>>

\* line 117
ConstructPublicAccountsWeb ==
    /\ pc = "paw"
    /\ calls' = Append(calls, [op |-> "PublicAccountsWeb",
                               args |-> <<params["cookie"], params["token"]>>])
    /\ \/ /\ pc' = "get_urls"
          /\ exc' = exc
       \/ \E k \in LibExcKinds :
             /\ exc' = Raise(k, "PublicAccountsWeb", "init failed")
             /\ pc' = "except"
    /\ UNCHANGED <<params, out, errors, ei, article_data, comments, nums>>

\* line 118
GetUrls ==
    /\ pc = "get_urls"
    /\ calls' = Append(calls, [op |-> "get_urls", args |-> GetUrlsArgs(params)])
    /\ \/ \E r \in UrlReturns :
             /\ article_data' = r
             /\ pc' = "parse_urls"
             /\ exc' = exc
       \/ \E k \in LibExcKinds :
             /\ exc' = Raise(k, "get_urls", "get_urls failed")
             /\ pc' = "except"
             /\ article_data' = article_data
    /\ UNCHANGED <<params, out, errors, ei, comments, nums>>

\* lines 119-120: iterating None raises TypeError, item.get on a non-dict
\* raises AttributeError
ParseAndYieldUrls ==
    /\ pc = "parse_urls"
    /\ IF article_data.kind = "none"
       THEN /\ exc' = Raise("TypeError", "internal", "'NoneType' object is not iterable")
            /\ pc' = "except"
            /\ out' = out
       ELSE IF article_data.kind = "strs"
       THEN /\ exc' = Raise("AttributeError", "internal", "'str' object has no attribute 'get'")
            /\ pc' = "except"
            /\ out' = out
       ELSE /\ out' = Append(out, create_json_message(
                                     _parse_article_urls_response(article_data.items)))
            /\ pc' = "done"
            /\ exc' = exc
    /\ UNCHANGED <<params, calls, errors, ei, article_data, comments, nums>>

\* lines 123-124
ValidateDetails ==
    /\ pc = "validate_details"
    /\ IF DetailsRaises(params)
       THEN /\ exc' = Raise("AttributeError", "internal",
                            "'int' object has no attribute 'startswith'")
            /\ pc' = "except"
            /\ UNCHANGED <<errors, ei>>
       ELSE /\ errors' = _validate_details_parameters(params)
            /\ ei' = 1
            /\ pc' = IF errors' # <<>> THEN "yield_details" ELSE "articles_info"
            /\ exc' = exc
    /\ UNCHANGED <<params, out, calls, article_data, comments, nums>>

\* variant: no return after the details errors
YieldDetailsError_NoReturn ==
    /\ pc = "yield_details"
    /\ out' = Append(out, create_text_message(errors[ei]))
    /\ ei' = ei + 1
    /\ pc' = IF ei' > Len(errors) THEN "articles_info" ELSE "yield_details"
    /\ UNCHANGED <<params, calls, errors, exc, article_data, comments, nums>>

\* lines 125-127
YieldDetailsError ==
    /\ pc = "yield_details"
    /\ out' = Append(out, create_text_message(errors[ei]))
    /\ ei' = ei + 1
    /\ pc' = IF ei' > Len(errors) THEN "done" ELSE "yield_details"
    /\ UNCHANGED <<params, calls, errors, exc, article_data, comments, nums>>

\* lines 129-133
ConstructArticlesInfo ==
    /\ pc = "articles_info"
    /\ calls' = Append(calls, [op |-> "ArticlesInfo",
                               args |-> <<params["appmsg_token"], params["wechat_cookie"]>>])
    /\ \/ /\ pc' = "comments"
          /\ exc' = exc
       \/ \E k \in LibExcKinds :
             /\ exc' = Raise(k, "ArticlesInfo", "init failed")
             /\ pc' = "except"
    /\ UNCHANGED <<params, out, errors, ei, article_data, comments, nums>>

\* line 134
Comments ==
    /\ pc = "comments"
    /\ calls' = Append(calls, [op |-> "comments", args |-> <<params["article_url"]>>])
    /\ \/ \E r \in CommentsReturns :
             /\ comments' = r
             /\ pc' = "read_like_nums"
             /\ exc' = exc
       \/ \E k \in LibExcKinds :
             /\ exc' = Raise(k, "comments", "comments failed")
             /\ pc' = "except"
             /\ comments' = comments
    /\ UNCHANGED <<params, out, errors, ei, article_data, nums>>

\* line 135: the call, then the unpacking into three names
ReadLikeNums ==
    /\ pc = "read_like_nums"
    /\ calls' = Append(calls, [op |-> "read_like_nums", args |-> <<params["article_url"]>>])
    /\ \/ \E r \in NumsReturns :
             IF r.kind = "none"
             THEN /\ exc' = Raise("TypeError", "internal",
                                  "cannot unpack non-iterable NoneType object")
                  /\ pc' = "except"
                  /\ nums' = nums
             ELSE IF Len(r.items) # 3
             THEN /\ exc' = Raise("ValueError", "internal", "wrong number of values to unpack")
                  /\ pc' = "except"
                  /\ nums' = nums
             ELSE /\ nums' = r
                  /\ pc' = "details_json"
                  /\ exc' = exc
       \/ \E k \in LibExcKinds :
             /\ exc' = Raise(k, "read_like_nums", "read_like_nums failed")
             /\ pc' = "except"
             /\ nums' = nums
    /\ UNCHANGED <<params, out, errors, ei, article_data, comments>>

\* lines 137-138
YieldDetailsJson ==
    /\ pc = "details_json"
    /\ out' = Append(out, create_json_message(
                 _parse_article_details_response(comments, nums.items[1], nums.items[2],
                                                 nums.items[3])))
    /\ pc' = "done"
    /\ UNCHANGED <<params, calls, errors, ei, exc, article_data, comments, nums>>

\* lines 139-144: an exception no clause matches leaves the generator
Except ==
    /\ pc = "except"
    /\ IF Caught(exc)
       THEN /\ out' = Append(out, create_text_message(ExceptText(exc)))
            /\ pc' = "done"
       ELSE /\ out' = out
            /\ pc' = "propagated"
    /\ UNCHANGED <<params, calls, errors, ei, exc, article_data, comments, nums>>

Next ==
    \/ CheckAction
    \/ ValidateCommon
    \/ YieldCommonError
    \/ Dispatch
    \/ ConstructPublicAccountsWeb
    \/ GetUrls
    \/ ParseAndYieldUrls
    \/ ValidateDetails
    \/ YieldDetailsError
    \/ ConstructArticlesInfo
    \/ Comments
    \/ ReadLikeNums
    \/ YieldDetailsJson
    \/ Except

Spec == Init /\ [][Next]_vars

TypeOK == pc \in {"start", "validate_common", "yield_common", "try", "paw", "get_urls",
                  "parse_urls", "validate_details", "yield_details", "articles_info",
                  "comments", "read_like_nums", "details_json", "except", "done",
                  "propagated"}

\* ------------------------------------------------- vocabulary of the claims
IsText(m) == m.type = "text"
IsJson(m) == m.type = "json"
AllText == \A i \in 1..Len(out) : IsText(out[i])
HasJson == \E i \in 1..Len(out) : IsJson(out[i])

\* a parameter that is absent or empty (null, "", 0)
AbsentOrEmpty(v) ==
    \/ v.t \in {"absent", "none"}
    \/ v.t = "str" /\ v.s = ""
    \/ v.t \in {"int", "bool"} /\ v.n = 0

ActionMissing == AbsentOrEmpty(params.action)
ActionInvalid == ~ActionMissing /\ ~(params.action.t = "str" /\ params.action.s \in ValidActions)
ActionIs(a) == params.action = StrV(a)
ActionValid == ActionIs("get_article_urls") \/ ActionIs("get_article_details")

IntIn1to5(v) == v.t \in {"int", "bool"} /\ v.n >= 1 /\ v.n <= 5

\* the common violations, by name, in the order cookie, token, nickname, biz, count
ExpectedCommon ==
    SelectSeq(<<"cookie", "token", "nickname", "biz">>, LAMBDA k : AbsentOrEmpty(params[k]))
    \o (IF params.count.t # "absent" /\ ~IntIn1to5(params.count) THEN <<"count">> ELSE <<>>)

\* the details violations, by name, in the order appmsg_token, wechat_cookie,
\* article_url, then the URL format
ExpectedDetails ==
    SelectSeq(<<"appmsg_token", "wechat_cookie", "article_url">>,
              LAMBDA k : AbsentOrEmpty(params[k]))
    \o (IF /\ ~AbsentOrEmpty(params.article_url)
           /\ ~(params.article_url.t = "str" /\ StartsWith(params.article_url.s, "http"))
        THEN <<"url_format">> ELSE <<>>)

ReportsCommon(m, k) ==
    /\ IsText(m)
    /\ IF k = "count" THEN m.text = <<"Parameter 'count' must be an integer between 1 and 5">>
       ELSE Len(m.text) >= 2 /\ m.text[1] = "Missing required parameter: " /\ m.text[2] = k

ReportsDetails(m, k) ==
    /\ IsText(m)
    /\ IF k = "url_format" THEN m.text = <<"Parameter 'article_url' must be a valid URL">>
       ELSE /\ Len(m.text) >= 2
            /\ m.text[1] = "Missing required parameter for get_article_details: "
            /\ m.text[2] = k

IsValidationText(m) ==
    /\ IsText(m)
    /\ m.text[1] \in {"Missing required parameter: action", "Invalid action: ",
                      "Missing required parameter: ",
                      "Parameter 'count' must be an integer between 1 and 5",
                      "Missing required parameter for get_article_details: ",
                      "Parameter 'article_url' must be a valid URL"}

CallOps == [i \in 1..Len(calls) |-> calls[i].op]
IsPrefix(a, b) == Len(a) <= Len(b) /\ SubSeq(b, 1, Len(a)) = a

\* ------------------------------------------------------------------ C1
\* C1: once any validation error text has been emitted, no call to the
\* scraping library has been made, in any state of the invocation (so none
\* is made afterwards either).
C1_ValidationNeverReachesLibrary ==
    (\E i \in 1..Len(out) : IsValidationText(out[i])) => calls = <<>>

C1_Witness ==
    /\ pc = "done"
    /\ ActionIs("get_article_details")
    /\ \E i \in 1..Len(out) : out[i] = create_text_message(UrlError)
    /\ calls = <<>>

\* ------------------------------------------------------------------ C2
\* C2: with action absent or empty the whole output is the one literal text
\* "Missing required parameter: action"; with a non-empty unsupported action
\* it is one text holding "Invalid action: <value>" and both action names;
\* whatever the other parameters are, nothing else is checked or emitted.
C2_ActionFailuresStopAtOnce ==
    /\ ActionMissing =>
          /\ pc \in {"start", "done"}
          /\ calls = <<>>
          /\ out = (IF pc = "start" THEN <<>>
                    ELSE <<create_text_message(<<"Missing required parameter: action">>)>>)
    /\ ActionInvalid =>
          /\ pc \in {"start", "done"}
          /\ calls = <<>>
          /\ IF pc = "start" THEN out = <<>>
             ELSE /\ Len(out) = 1
                  /\ IsText(out[1])
                  /\ \E i \in 1..(Len(out[1].text) - 1) :
                        /\ out[1].text[i] = "Invalid action: "
                        /\ out[1].text[i + 1] = PyStr(params.action)
                  /\ \E i \in 1..Len(out[1].text) : out[1].text[i] = "get_article_urls"
                  /\ \E i \in 1..Len(out[1].text) : out[1].text[i] = "get_article_details"

C2_Witness ==
    /\ pc = "done"
    /\ params.action = StrV("bogus")
    /\ Len(ExpectedCommon) = 5
    /\ Len(out) = 1

\* ------------------------------------------------------------------ C3
\* C3: for a valid action with at least one common violation, the output is
\* exactly one text per violation in the order cookie, token, nickname, biz,
\* count, the invocation stops there and makes no library call.
C3_CommonViolationsBatched ==
    (ActionValid /\ ExpectedCommon # <<>>) =>
        /\ pc \in {"start", "validate_common", "yield_common", "done"}
        /\ calls = <<>>
        /\ Len(out) <= Len(ExpectedCommon)
        /\ \A i \in 1..Len(out) : ReportsCommon(out[i], ExpectedCommon[i])
        /\ pc = "done" => Len(out) = Len(ExpectedCommon)

C3_Witness ==
    /\ pc = "done"
    /\ ActionValid
    /\ ExpectedCommon = <<"cookie", "token", "nickname", "biz", "count">>
    /\ Len(out) = 5

\* ------------------------------------------------------------------ C4
\* C4: a network-transport error raised by get_urls, comments or
\* read_like_nums leaves exactly one message, the text "Network error
\* occurred: " followed by the error, and no JSON message; comments already
\* fetched are not reported.
C4_NetworkErrorOnlyMessage ==
    (exc.kind = "RequestException" /\ exc.src \in {"get_urls", "comments", "read_like_nums"}) =>
        /\ pc \in {"except", "done"}
        /\ out = (IF pc = "except" THEN <<>>
                  ELSE <<create_text_message(<<"Network error occurred: ", exc.msg>>)>>)

C4_Witness ==
    /\ pc = "done"
    /\ exc.kind = "RequestException"
    /\ exc.src = "read_like_nums"
    /\ comments.kind = "list"
    /\ comments.items # <<>>
    /\ Len(out) = 1

\* ------------------------------------------------------------------ C5
\* C5: no exception leaves the invocation: every state that is not final has
\* a next step, the final state is the normal end of the sequence, and a
\* failure of any kind (bad action, parameter violation, raised exception,
\* malformed return value) has been reported as text.
C5_Failure ==
    \/ exc # NoExc
    \/ ActionMissing
    \/ ActionInvalid
    \/ ExpectedCommon # <<>>
    \/ ActionIs("get_article_details") /\ ExpectedDetails # <<>>

C5_NothingPropagates ==
    /\ pc # "propagated"
    /\ pc # "done" => ENABLED Next
    /\ (pc = "done" /\ C5_Failure) => (out # <<>> /\ AllText)
    /\ (pc = "done" /\ exc # NoExc) => out[Len(out)].text[2] = exc.msg

C5_Witness ==
    /\ pc = "done"
    /\ exc.kind = "TypeError"
    /\ nums = Unset
    /\ comments # Unset
    /\ AllText

\* ------------------------------------------------------------------ C6
\* C6: a finished invocation has emitted exactly one message, or, when
\* validation failed, one text per violation; it never emits nothing, emits
\* a JSON message at most once and never together with another message, and
\* takes no step after finishing.
C6_ValidationOutput ==
    /\ AllText
    /\ \/ ActionValid /\ ExpectedCommon # <<>> /\ Len(out) = Len(ExpectedCommon)
       \/ /\ ActionIs("get_article_details")
          /\ ExpectedCommon = <<>>
          /\ ExpectedDetails # <<>>
          /\ Len(out) = Len(ExpectedDetails)

C6_OneMessageOrViolations ==
    /\ Cardinality({i \in 1..Len(out) : IsJson(out[i])}) <= 1
    /\ HasJson => Len(out) = 1
    /\ pc = "done" => /\ Len(out) >= 1
                      /\ Len(out) = 1 \/ C6_ValidationOutput
                      /\ ~ENABLED Next

C6_Witness ==
    /\ pc = "done"
    /\ ActionIs("get_article_details")
    /\ ExpectedCommon = <<>>
    /\ Len(ExpectedDetails) = 3
    /\ Len(out) = 3

\* ------------------------------------------------------------------ C7
\* C7: when get_urls returned a list of records, the one JSON message has as
\* many articles, in the same order, each with exactly the fields title,
\* link, update_time, cover of its record (missing: "" or 0 for update_time;
\* extra fields dropped), and total_count is the number of articles.
C7_Fields == {"title", "link", "update_time", "cover"}

C7_Entry(r) ==
    [f \in C7_Fields |-> IF f \in DOMAIN r THEN r[f]
                         ELSE IF f = "update_time" THEN IntV(0) ELSE StrV("")]

C7_ArticleUrlsResult ==
    (pc = "done" /\ article_data.kind = "list") =>
        /\ Len(out) = 1
        /\ IsJson(out[1])
        /\ DOMAIN out[1].json = {"articles", "total_count"}
        /\ Len(out[1].json.articles) = Len(article_data.items)
        /\ \A i \in 1..Len(article_data.items) :
              /\ DOMAIN out[1].json.articles[i] = C7_Fields
              /\ out[1].json.articles[i] = C7_Entry(article_data.items[i])
        /\ out[1].json.total_count = Len(out[1].json.articles)

C7_Witness ==
    /\ pc = "done"
    /\ article_data.kind = "list"
    /\ Len(article_data.items) = 2
    /\ DOMAIN article_data.items[1] = {"title"}
    /\ "extra" \in DOMAIN article_data.items[2]
    /\ HasJson

\* ------------------------------------------------------------------ C8
\* C8: when comments returned C and read_like_nums returned (r, l, o), the
\* one JSON message is {comments: C, read_num: r, like_num: l,
\* old_like_num: o}.
C8_ArticleDetailsResult ==
    (pc = "done" /\ nums # Unset) =>
        out = << create_json_message([comments |-> comments,
                                      read_num |-> nums.items[1],
                                      like_num |-> nums.items[2],
                                      old_like_num |-> nums.items[3]]) >>

C8_Witness ==
    /\ pc = "done"
    /\ nums.items = <<IntV(8), IntV(2), IntV(1)>>
    /\ comments.items = <<StrV("hi")>>
    /\ HasJson

\* ------------------------------------------------------------------ C9
\* C9: for get_article_details past the common validation, when a details
\* parameter is absent or empty or article_url is present and does not start
\* with "http", the output is exactly one text per such error (missing
\* appmsg_token, wechat_cookie, article_url in that order, then the URL
\* format text) and no library call is made.
C9_DetailsViolationsBatched ==
    (ActionIs("get_article_details") /\ ExpectedCommon = <<>> /\ ExpectedDetails # <<>>) =>
        /\ calls = <<>>
        /\ Len(out) <= Len(ExpectedDetails)
        /\ \A i \in 1..Len(out) : ReportsDetails(out[i], ExpectedDetails[i])
        /\ pc = "done" => Len(out) = Len(ExpectedDetails)

\* ----------------------------------------------------------------- C10
\* C10: the library calls of one invocation are a prefix of
\* PublicAccountsWeb, get_urls (begin and count as strings) for
\* get_article_urls and of ArticlesInfo, comments(article_url),
\* read_like_nums(article_url) for get_article_details; read_like_nums is
\* called only after comments returned, the JSON message is emitted only
\* after the last call returned, and no call is repeated.
C10_CallOrder ==
    /\ ~ActionValid => calls = <<>>
    /\ ActionIs("get_article_urls") =>
          /\ IsPrefix(CallOps, <<"PublicAccountsWeb", "get_urls">>)
          /\ Len(calls) = 2 =>
                /\ calls[2].args[3].t = "str"
                /\ calls[2].args[4].t = "str"
                /\ calls[2].args[3].s = PyStr(begin)
                /\ calls[2].args[4].s = PyStr(count)
          /\ HasJson => (Len(calls) = 2 /\ article_data # Unset)
    /\ ActionIs("get_article_details") =>
          /\ IsPrefix(CallOps, <<"ArticlesInfo", "comments", "read_like_nums">>)
          /\ \A i \in 2..Len(calls) : calls[i].args = <<params.article_url>>
          /\ Len(calls) = 3 => (comments # Unset /\ exc.src # "comments")
          /\ HasJson => (Len(calls) = 3 /\ comments # Unset /\ nums # Unset)

C10_Witness ==
    /\ pc = "done"
    /\ ActionIs("get_article_urls")
    /\ params.begin = IntV(3)
    /\ params.count = TrueV
    /\ Len(calls) = 2
    /\ calls[2].args[3] = StrV("3")
    /\ HasJson

====
